---- MODULE Spec2Model ----
(***************************************************************************)
(* Model of the small_projects firmware pieces:                            *)
(*   - laser_sound_card/ppm.pio : the PIO programs pulse_generator and     *)
(*     pulse_detector, one action per instruction, one step per clock      *)
(*     cycle of the state machine;                                         *)
(*   - the USB descriptor callbacks of the CDC variant (ppm_loop) and of   *)
(*     the audio variant (laser_PDM/usb_descriptors.c).                    *)
(* The three components do not interact; each has its own specification.   *)
(***************************************************************************)
EXTENDS Integers, Sequences, FiniteSets

VARIABLES
    \* ---- pulse_detector state machine and its surroundings
    dpc,        \* instruction the detector executes next
    ddelay,     \* delay cycles still to run after a "[2]" instruction
    y,          \* scratch register Y (W bits)
    isr,        \* input shift register (W bits)
    rxfifo,     \* RX FIFO: samples waiting for the consumer
    planD,      \* input waveform: length of the current low level, in cycles
    planH,      \* input waveform: length of the high level that follows it
    pos,        \* input waveform: cycle inside the current low+high period
    mD,         \* history: length of the pause being measured (0: none yet)
    mH,         \* history: length of the high level that ends that pause
    saturated,  \* history: count_loop was left by falling through jmp y--
    nPushed,    \* history: samples put into the FIFO for the current measurement
    lastSample, \* history: the last value put into the FIFO
    \* ---- pulse_generator state machine and its surroundings
    gpc,        \* instruction the generator executes next
    x,          \* scratch register X (W bits)
    osr,        \* output shift register
    txfifo,     \* TX FIFO: commands waiting for the generator
    gpin,       \* level of the side-set output pin
    produced,   \* history: commands written to the TX FIFO so far
    pulled,     \* history: commands pulled so far
    edges,      \* history: rising edges on the output pin so far
    frameEdges, \* history: rising edges since the last pull
    hiLen,      \* history: consecutive cycles the pin has been high
    sinceEdge1, \* history: cycles between the two rising edges of the frame
    gap,        \* history: low cycles between the two rising edges of the frame
    \* ---- descriptor provider
    variant,         \* "cdc" (ppm_loop) or "audio" (laser_PDM)
    cfgAudio,        \* build-time setting CFG_TUD_AUDIO
    string_desc_arr, \* the string table
    desc_str,        \* _desc_str, the 33-entry scratch buffer
    result,          \* what the last callback returned
    lastIndex,       \* history: index argument of the last string call, an
                     \* index past the table recorded as the table size
                     \* (-1: no string call yet, or another callback since)
    lastCount,       \* history: chr_count of the last string call
    written          \* history: buffer indices the last string call assigned

detVars == <<dpc, ddelay, y, isr, rxfifo, planD, planH, pos, mD, mH,
             saturated, nPushed, lastSample>>
genVars == <<gpc, x, osr, txfifo, gpin, produced, pulled, edges, frameEdges,
             hiLen, sinceEdge1, gap>>
strVars == <<variant, cfgAudio, string_desc_arr, desc_str, result, lastIndex,
             lastCount, written>>
vars == <<detVars, genVars, strVars>>

----------------------------------------------------------------------------
(* Bounds of the model *)

\* width of the scratch registers (32 on the hardware)
W == 2
\* entries of a PIO FIFO (4 on the hardware)
FifoDepth == 1
\* longest low level of the input waveform, in cycles
MaxD == 11
\* longest high level of the input waveform, in cycles
MaxH == 2
\* commands written to the generator in a run
MaxCmds == 3
\* longest string of a test table
MaxStrLen == 34
\* largest value of CFG_TUD_AUDIO
MaxCfgAudio == 2

RECURSIVE Pow2(_)
Pow2(n) == IF n = 0 THEN 1 ELSE 2 * Pow2(n - 1)

\* all ones in a W-bit register: the value of ~NULL
MaxCount == Pow2(W) - 1

\* bitwise complement of a W-bit register
BitNot(v) == MaxCount - v

\* post-decrement of a W-bit register, wrapping modulo 2^W
Dec(v) == (v + Pow2(W) - 1) % Pow2(W)

----------------------------------------------------------------------------
(* pulse_detector *)

\* level of the input pin in the current cycle
pin == IF pos <= planD THEN 0 ELSE 1

\* the input waveform moves on by one clock cycle
EnvAdvance ==
    IF pos < planD + planH
    THEN /\ pos' = pos + 1
         /\ UNCHANGED <<planD, planH>>
    ELSE /\ pos' = 1
         /\ planD' \in 1..MaxD
         /\ planH' \in 1..MaxH

DetInit ==
    /\ dpc = "wait0a"
    /\ ddelay = 0
    /\ y = 0
    /\ isr = 0
    /\ rxfifo = <<>>
    /\ planD \in 1..MaxD
    /\ planH \in 1..MaxH
    /\ pos \in 1..(planD + planH)
    /\ mD = 0
    /\ mH = 0
    /\ saturated = FALSE
    /\ nPushed = 0
    /\ lastSample = 0

\* a delay cycle of "wait 0 pin 0 [2]"
DetDelay ==
    /\ ddelay > 0
    /\ ddelay' = ddelay - 1
    /\ EnvAdvance
    /\ UNCHANGED <<dpc, y, isr, rxfifo, mD, mH, saturated, nPushed,
                   lastSample>>
    /\ UNCHANGED <<genVars, strVars>>

\* wait 0 pin 0 [2]  (first instruction); the history of the finished
\* measurement is forgotten when the next synchronisation starts
DetWait0a ==
    /\ ddelay = 0
    /\ dpc = "wait0a"
    /\ IF pin = 0
       THEN /\ dpc' = "wait1"
            /\ ddelay' = 2
            /\ mD' = 0
            /\ mH' = 0
            /\ saturated' = FALSE
            /\ nPushed' = 0
            /\ lastSample' = 0
       ELSE UNCHANGED <<dpc, ddelay, mD, mH, saturated, nPushed, lastSample>>
    /\ EnvAdvance
    /\ UNCHANGED <<y, isr, rxfifo>>
    /\ UNCHANGED <<genVars, strVars>>

\* wait 1 pin 0
DetWait1 ==
    /\ ddelay = 0
    /\ dpc = "wait1"
    /\ dpc' = IF pin = 1 THEN "wait0b" ELSE dpc
    /\ EnvAdvance
    /\ UNCHANGED <<ddelay, y, isr, rxfifo, mD, mH, saturated, nPushed,
                   lastSample>>
    /\ UNCHANGED <<genVars, strVars>>

\* wait 0 pin 0 [2]  (third instruction): the measured pause starts here
DetWait0b ==
    /\ ddelay = 0
    /\ dpc = "wait0b"
    /\ IF pin = 0
       THEN /\ dpc' = "movy"
            /\ ddelay' = 2
            /\ mD' = planD - pos + 1
            /\ mH' = planH
            /\ saturated' = FALSE
            /\ nPushed' = 0
       ELSE UNCHANGED <<dpc, ddelay, mD, mH, saturated, nPushed>>
    /\ EnvAdvance
    /\ UNCHANGED <<y, isr, rxfifo, lastSample>>
    /\ UNCHANGED <<genVars, strVars>>

\* mov y ~NULL
DetMovY ==
    /\ ddelay = 0
    /\ dpc = "movy"
    /\ y' = BitNot(0)
    /\ dpc' = "jmppin"
    /\ EnvAdvance
    /\ UNCHANGED <<ddelay, isr, rxfifo, mD, mH, saturated, nPushed,
                   lastSample>>
    /\ UNCHANGED <<genVars, strVars>>

\* count_loop: jmp pin finish
DetJmpPin ==
    /\ ddelay = 0
    /\ dpc = "jmppin"
    /\ dpc' = IF pin = 1 THEN "movisr" ELSE "jmpy"
    /\ EnvAdvance
    /\ UNCHANGED <<ddelay, y, isr, rxfifo, mD, mH, saturated, nPushed,
                   lastSample>>
    /\ UNCHANGED <<genVars, strVars>>

\* jmp y-- count_loop: the branch is taken when Y is nonzero before the
\* decrement; the decrement happens in either case
DetJmpY ==
    /\ ddelay = 0
    /\ dpc = "jmpy"
    /\ dpc' = IF y # 0 THEN "jmppin" ELSE "movisr"
    /\ y' = Dec(y)
    /\ saturated' = (y = 0)
    /\ EnvAdvance
    /\ UNCHANGED <<ddelay, isr, rxfifo, mD, mH, nPushed, lastSample>>
    /\ UNCHANGED <<genVars, strVars>>

\* a finish that forgets the complement: mov ISR y
DetMovIsr_NoInvert ==
    /\ ddelay = 0
    /\ dpc = "movisr"
    /\ isr' = y
    /\ dpc' = "push"
    /\ EnvAdvance
    /\ UNCHANGED <<ddelay, y, rxfifo, mD, mH, saturated, nPushed,
                   lastSample>>
    /\ UNCHANGED <<genVars, strVars>>

\* finish: mov ISR ~y
DetMovIsr ==
    /\ ddelay = 0
    /\ dpc = "movisr"
    /\ isr' = BitNot(y)
    /\ dpc' = "push"
    /\ EnvAdvance
    /\ UNCHANGED <<ddelay, y, rxfifo, mD, mH, saturated, nPushed,
                   lastSample>>
    /\ UNCHANGED <<genVars, strVars>>

\* push: written without "noblock", which the assembler encodes as
\* "push block": the state machine stalls while the RX FIFO is full.
\* A completed push clears the ISR; .wrap leads back to the first instruction.
DetPush ==
    /\ ddelay = 0
    /\ dpc = "push"
    /\ IF Len(rxfifo) < FifoDepth
       THEN /\ rxfifo' = Append(rxfifo, isr)
            /\ isr' = 0
            /\ dpc' = "wait0a"
            /\ nPushed' = nPushed + 1
            /\ lastSample' = isr
       ELSE UNCHANGED <<rxfifo, isr, dpc, nPushed, lastSample>>
    /\ EnvAdvance
    /\ UNCHANGED <<ddelay, y, mD, mH, saturated>>
    /\ UNCHANGED <<genVars, strVars>>

\* the main program takes a sample out of the RX FIFO, at any time
Consume ==
    /\ rxfifo # <<>>
    /\ rxfifo' = Tail(rxfifo)
    /\ UNCHANGED <<dpc, ddelay, y, isr, planD, planH, pos, mD, mH,
                   saturated, nPushed, lastSample>>
    /\ UNCHANGED <<genVars, strVars>>

DetNext ==
    \/ DetDelay
    \/ DetWait0a
    \/ DetWait1
    \/ DetWait0b
    \/ DetMovY
    \/ DetJmpPin
    \/ DetJmpY
    \/ DetMovIsr
    \/ DetPush
    \/ Consume

----------------------------------------------------------------------------
(* Properties of pulse_detector *)

\* the detector has completed the push of a measurement and has not yet
\* started the next synchronisation
DetMeasured == dpc = "wait0a" /\ mD > 0

\* count_loop iterations for a pause of D cycles: the loop first reads the pin
\* in the fifth cycle of the pause and then every second cycle
ExpectedSample(D) == IF D <= 4 THEN 0 ELSE (D - 3) \div 2

\* the high level after a pause of D cycles is still there when jmp pin reads
\* the pin: it lasts two cycles or more and reaches the fifth cycle
CleanPause(D, H) == H >= 2 /\ D + H >= 5

\* C1 (as stated): a completed measurement of a pause of D cycles, D smaller
\* than the counter maximum, has pushed exactly one sample, of value D.
C1_SampleEqualsCycles ==
    (DetMeasured /\ mD < MaxCount) => (nPushed = 1 /\ lastSample = mD)

\* C1 (amended): a completed measurement has pushed exactly one sample; for a
\* pause of D cycles ended by a high level the count loop cannot miss, with no
\* more than MaxCount loop iterations, its value is the number of count_loop
\* iterations, 0 for D <= 4 and (D - 3) div 2 above, and not D.
C1_SampleIsLoopCount ==
    /\ nPushed <= 1
    /\ DetMeasured =>
         /\ nPushed = 1
         /\ (CleanPause(mD, mH) /\ ExpectedSample(mD) <= MaxCount)
                => lastSample = ExpectedSample(mD)

\* C1 witness: a pause of 7 or more cycles was measured as (D - 3) div 2 >= 2
C1_Witness ==
    /\ DetMeasured
    /\ CleanPause(mD, mH)
    /\ mD >= 7
    /\ ExpectedSample(mD) <= MaxCount
    /\ nPushed = 1
    /\ lastSample = ExpectedSample(mD)
    /\ lastSample # mD

\* C2: when the counter reaches zero in count_loop before the pin reads high,
\* the completed measurement has pushed exactly one sample and its value is
\* the maximum representable value (all ones).
C2_SaturatesAtMax ==
    (DetMeasured /\ saturated /\ mD >= 2 * Pow2(W) + 3)
        => (nPushed = 1 /\ lastSample = MaxCount)

\* C3: in a clock cycle in which the detector is at its push instruction and
\* the sample queue is full, the detector does not stall: it goes on to the
\* next measurement, and the queue contents are unchanged (the sample is
\* dropped).  A clock cycle is a step that moves the input waveform.
C3_PushNeverStalls ==
    [][(dpc = "push" /\ ddelay = 0 /\ Len(rxfifo) = FifoDepth /\ pos' # pos)
          => (dpc' = "wait0a" /\ rxfifo' = rxfifo)]_vars

----------------------------------------------------------------------------
(* pulse_generator *)

GenInit ==
    /\ gpc = "pull"
    /\ x = 0
    /\ osr = 0
    /\ txfifo = <<>>
    /\ gpin = 0
    /\ produced = 0
    /\ pulled = 0
    /\ edges = 0
    /\ frameEdges = 0
    /\ hiLen = 0
    /\ sinceEdge1 = 0
    /\ gap = 0

\* one clock cycle of the generator that drives the pin to level p: the
\* history of the output waveform
GenCycle(p) ==
    /\ gpin' = p
    /\ hiLen' = IF p = 1 THEN hiLen + 1 ELSE 0
    /\ edges' = IF p = 1 /\ gpin = 0 THEN edges + 1 ELSE edges
    /\ frameEdges' = IF p = 1 /\ gpin = 0 THEN frameEdges + 1 ELSE frameEdges
    /\ sinceEdge1' = IF frameEdges = 1 /\ ~(p = 1 /\ gpin = 0)
                     THEN sinceEdge1 + 1 ELSE sinceEdge1
    /\ gap' = IF frameEdges = 1 /\ p = 0 THEN gap + 1 ELSE gap

\* the main program writes a command to the TX FIFO
PutCmd ==
    /\ produced < MaxCmds
    /\ Len(txfifo) < FifoDepth
    /\ \E N \in 0..MaxCount : txfifo' = Append(txfifo, N)
    /\ produced' = produced + 1
    /\ UNCHANGED <<gpc, x, osr, gpin, pulled, edges, frameEdges, hiLen,
                   sinceEdge1, gap>>
    /\ UNCHANGED <<detVars, strVars>>

\* a pull that does not wait: with an empty TX FIFO it copies X to the OSR
GenPull_NoBlock ==
    /\ gpc = "pull"
    /\ IF txfifo # <<>>
       THEN osr' = Head(txfifo) /\ txfifo' = Tail(txfifo)
       ELSE osr' = x /\ txfifo' = txfifo
    /\ gpc' = "movx"
    /\ pulled' = IF txfifo # <<>> THEN pulled + 1 ELSE pulled
    /\ gpin' = 0
    /\ hiLen' = 0
    /\ frameEdges' = 0
    /\ sinceEdge1' = 0
    /\ gap' = 0
    /\ UNCHANGED <<x, produced, edges>>
    /\ UNCHANGED <<detVars, strVars>>

\* pull block  side 0: stalls, with the pin driven low, while the TX FIFO is
\* empty; a new frame starts when the command is taken
GenPull ==
    /\ gpc = "pull"
    /\ IF txfifo # <<>>
       THEN /\ osr' = Head(txfifo)
            /\ txfifo' = Tail(txfifo)
            /\ gpc' = "movx"
            /\ pulled' = pulled + 1
            /\ gpin' = 0
            /\ hiLen' = 0
            /\ frameEdges' = 0
            /\ sinceEdge1' = 0
            /\ gap' = 0
            /\ UNCHANGED edges
       ELSE /\ GenCycle(0)
            /\ UNCHANGED <<osr, txfifo, gpc, pulled>>
    /\ UNCHANGED <<x, produced>>
    /\ UNCHANGED <<detVars, strVars>>

\* mov x, osr  side 0
GenMovX ==
    /\ gpc = "movx"
    /\ x' = osr
    /\ gpc' = "set1a"
    /\ GenCycle(0)
    /\ UNCHANGED <<osr, txfifo, produced, pulled>>
    /\ UNCHANGED <<detVars, strVars>>

\* set pins, 1  side 1  (first pulse)
GenSet1a ==
    /\ gpc = "set1a"
    /\ gpc' = "set0a"
    /\ GenCycle(1)
    /\ UNCHANGED <<x, osr, txfifo, produced, pulled>>
    /\ UNCHANGED <<detVars, strVars>>

\* set pins, 0  side 0
GenSet0a ==
    /\ gpc = "set0a"
    /\ gpc' = "nop"
    /\ GenCycle(0)
    /\ UNCHANGED <<x, osr, txfifo, produced, pulled>>
    /\ UNCHANGED <<detVars, strVars>>

\* pause: nop  side 0
GenNop ==
    /\ gpc = "nop"
    /\ gpc' = "jmpx"
    /\ GenCycle(0)
    /\ UNCHANGED <<x, osr, txfifo, produced, pulled>>
    /\ UNCHANGED <<detVars, strVars>>

\* a loop that tests X after the decrement instead of before it
GenJmpX_TestAfter ==
    /\ gpc = "jmpx"
    /\ gpc' = IF Dec(x) # 0 THEN "nop" ELSE "set1b"
    /\ x' = Dec(x)
    /\ GenCycle(0)
    /\ UNCHANGED <<osr, txfifo, produced, pulled>>
    /\ UNCHANGED <<detVars, strVars>>

\* jmp x--, pause  side 0: the branch is taken when X is nonzero before the
\* decrement; the decrement happens in either case
GenJmpX ==
    /\ gpc = "jmpx"
    /\ gpc' = IF x # 0 THEN "nop" ELSE "set1b"
    /\ x' = Dec(x)
    /\ GenCycle(0)
    /\ UNCHANGED <<osr, txfifo, produced, pulled>>
    /\ UNCHANGED <<detVars, strVars>>

\* set pins, 1  side 1  (second pulse)
GenSet1b ==
    /\ gpc = "set1b"
    /\ gpc' = "set0b"
    /\ GenCycle(1)
    /\ UNCHANGED <<x, osr, txfifo, produced, pulled>>
    /\ UNCHANGED <<detVars, strVars>>

\* set pins, 0  side 0, then .wrap
GenSet0b ==
    /\ gpc = "set0b"
    /\ gpc' = "pull"
    /\ GenCycle(0)
    /\ UNCHANGED <<x, osr, txfifo, produced, pulled>>
    /\ UNCHANGED <<detVars, strVars>>

GenNext ==
    \/ PutCmd
    \/ GenPull
    \/ GenMovX
    \/ GenSet1a
    \/ GenSet0a
    \/ GenNop
    \/ GenJmpX
    \/ GenSet1b
    \/ GenSet0b

----------------------------------------------------------------------------
(* Properties of pulse_generator *)

\* C4: for every command N the frame has exactly two rising edges before the
\* next pull, each high level lasts one cycle, the pin is low for the whole
\* interval between the two pulses, and that interval is 2 * N + 3 cycles
\* long: it grows by the same two cycles with every unit of N and is
\* shortest, 3 cycles, for N = 0.
C4_FrameShape ==
    /\ hiLen <= 1
    /\ frameEdges <= 2
    /\ (gpc = "pull" /\ pulled > 0) => frameEdges = 2
    /\ frameEdges = 2 => (gap = 2 * osr + 3 /\ sinceEdge1 = gap)

\* C4 witness: a frame for a command N > 0 is complete, the generator is back
\* at its pull after two commands
C4_Witness ==
    /\ gpc = "pull"
    /\ pulled >= 2
    /\ osr > 0
    /\ frameEdges = 2
    /\ gap = 2 * osr + 3

GenNoPulseWithoutCommand ==
    /\ edges <= 2 * pulled
    /\ gpc = "pull" => (gpin = 0 /\ edges = 2 * pulled)

GenStallsAtPull ==
    (gpc = "pull" /\ txfifo = <<>>)
        => (gpc' = "pull" /\ gpin' = 0 /\ edges' = edges /\ pulled' = pulled)

\* C5: while the command queue is empty at the pull the generator stays there
\* with the pin low; the rising edges emitted so far never exceed twice the
\* commands pulled so far, and at every pull they are exactly twice that
\* number (each command is consumed by one two-pulse frame).
C5_BlocksOnCommands == []GenNoPulseWithoutCommand /\ [][GenStallsAtPull]_vars

\* C5 witness: the generator waits at its pull with an empty queue after it
\* has emitted the frames of two commands
C5_Witness ==
    /\ gpc = "pull"
    /\ txfifo = <<>>
    /\ pulled >= 2
    /\ edges = 2 * pulled
    /\ gpin = 0

----------------------------------------------------------------------------
(* descriptor provider *)

\* TUSB_DESC_STRING, the descriptor-type tag of a string descriptor
TUSB_DESC_STRING == 3
\* entries of _desc_str: 32 + 1
DESC_STR_LEN == 33
\* STRID_LANGID and STRID_SERIAL of the string index enum
STRID_LANGID == 0
STRID_SERIAL == 3
\* values of a byte and of a uint16_t
BYTE == 256
U16 == 65536
\* the index argument is a uint8_t
Indices == 0..(BYTE - 1)

RECURSIVE BitOr(_, _)
\* bitwise or of two naturals
BitOr(a, b) ==
    IF a = 0 THEN b
    ELSE IF b = 0 THEN a
    ELSE (IF a % 2 = 1 \/ b % 2 = 1 THEN 1 ELSE 0) + 2 * BitOr(a \div 2, b \div 2)

\* the NULL entry of the table (the serial slot); never read as a string
NULLSTR == <<-1>>

\* string_desc_arr of the CDC variant:
\* {0x09,0x04}, "ppm_loop", "ppm", NULL, "ppm_loop", "PPMReset"
CdcTable ==
    << <<9, 4>>,
       <<112, 112, 109, 95, 108, 111, 111, 112>>,
       <<112, 112, 109>>,
       NULLSTR,
       <<112, 112, 109, 95, 108, 111, 111, 112>>,
       <<80, 80, 77, 82, 101, 115, 101, 116>> >>

\* string_desc_arr of the audio variant: {0x09,0x04}, "IPM Group",
\* "Laser Sound Card", NULL, "Laser Speakers", "Laser Microphone"
AudioTable ==
    << <<9, 4>>,
       <<73, 80, 77, 32, 71, 114, 111, 117, 112>>,
       <<76, 97, 115, 101, 114, 32, 83, 111, 117, 110, 100, 32, 67, 97, 114, 100>>,
       NULLSTR,
       <<76, 97, 115, 101, 114, 32, 83, 112, 101, 97, 107, 101, 114, 115>>,
       <<76, 97, 115, 101, 114, 32, 77, 105, 99, 114, 111, 112, 104, 111, 110, 101>> >>

TableOf(v) == IF v = "cdc" THEN CdcTable ELSE AudioTable

\* a test string of L characters, 'B', 'C', ... in turn
TestStr(L) == [i \in 1..L |-> 65 + (i % 26)]

\* what board_usb_get_serial may report: the count of code units it wrote
SerialCounts == {0, 16, 32}

\* the code units board_usb_get_serial writes: upper-case hex digits
SerialUnit(i) == IF i % 16 < 10 THEN 48 + (i % 16) ELSE 55 + (i % 16)

\* strings a read past the end of the table may find
OutOfTable == {<<>>, <<88>>}

\* an off-by-one bound check: index <= table entries
InTable_OffByOne(index, tbl) == index <= Len(tbl)

\* index < sizeof(string_desc_arr) / sizeof(string_desc_arr[0])
InTable(index, tbl) == index < Len(tbl)

\* a cap at the buffer size, without the "- 1 for string type"
CapCount_NoHeaderRoom(n) == IF n > DESC_STR_LEN THEN DESC_STR_LEN ELSE n

\* chr_count = strlen(str), capped at max_count = entries of _desc_str - 1
CapCount(n) == IF n > DESC_STR_LEN - 1 THEN DESC_STR_LEN - 1 ELSE n

\* a copy loop that starts at i = 1
Utf16Copy_SkipFirst(buf, str, n) ==
    [i \in DOMAIN buf |-> IF 2 <= i /\ i <= n THEN str[i] % U16 ELSE buf[i]]

\* for (i = 0; i < chr_count; i++) _desc_str[1 + i] = str[i];
\* a write outside the buffer does not land in it
Utf16Copy(buf, str, n) ==
    [i \in DOMAIN buf |-> IF 1 <= i /\ i <= n THEN str[i] % U16 ELSE buf[i]]

\* a header whose length leaves out the two header bytes
Header_NoHeaderBytes(n) == BitOr(TUSB_DESC_STRING * BYTE, 2 * n) % U16

\* (uint16_t)((TUSB_DESC_STRING << 8) | (2 * chr_count + 2))
Header(n) == BitOr(TUSB_DESC_STRING * BYTE, 2 * n + 2) % U16

\* the index as the history records it
PastTable(index) ==
    IF index > Len(string_desc_arr) THEN Len(string_desc_arr) ELSE index

\* the return of tud_descriptor_string_cb through its last statement: the
\* header is written and _desc_str returned
StringReturn(index, buf, n) ==
    /\ desc_str' = [buf EXCEPT ![0] = Header(n)]
    /\ result' = "desc_str"
    /\ lastIndex' = PastTable(index)
    /\ lastCount' = n
    /\ written' = 0..n

\* tud_descriptor_string_cb(index, langid); sn is what the board's serial
\* provider reports in this call
tud_descriptor_string_cb(index, sn) ==
    /\ IF index = STRID_LANGID
       THEN \* memcpy(&_desc_str[1], string_desc_arr[0], 2): one little-endian unit
            StringReturn(index,
                [desc_str EXCEPT ![1] = string_desc_arr[1][1]
                                        + BYTE * string_desc_arr[1][2]],
                1)
       ELSE IF index = STRID_SERIAL
       THEN \* chr_count = board_usb_get_serial(_desc_str + 1, 32)
            StringReturn(index,
                [i \in DOMAIN desc_str |->
                    IF 1 <= i /\ i <= sn THEN SerialUnit(i) ELSE desc_str[i]],
                sn)
       ELSE IF ~InTable(index, string_desc_arr)
       THEN /\ result' = "NULL"
            /\ lastIndex' = PastTable(index)
            /\ lastCount' = 0
            /\ written' = {}
            /\ UNCHANGED desc_str
       ELSE \E str \in (IF index + 1 \in DOMAIN string_desc_arr
                        THEN {string_desc_arr[index + 1]} ELSE OutOfTable) :
                StringReturn(index,
                    Utf16Copy(desc_str, str, CapCount(Len(str))),
                    CapCount(Len(str)))
    /\ UNCHANGED <<variant, cfgAudio, string_desc_arr>>
    /\ UNCHANGED <<detVars, genVars>>

\* the host asks for a string descriptor, with any index
StringRequest ==
    \E index \in Indices, sn \in SerialCounts :
        /\ (index # STRID_SERIAL => sn = 0)
        /\ tud_descriptor_string_cb(index, sn)

\* the same, with the indices of the table and the first one past it
StringRequestInTable ==
    \E index \in 0..Len(string_desc_arr), sn \in SerialCounts :
        /\ (index # STRID_SERIAL => sn = 0)
        /\ tud_descriptor_string_cb(index, sn)


\* TUD_CONFIG_DESC_LEN, the length of the configuration header
TUD_CONFIG_DESC_LEN == 9
\* TUSB_DESC_CONFIGURATION, the descriptor-type tag of the header
TUSB_DESC_CONFIGURATION == 2
\* ITF_NUM_TOTAL of the CDC variant (ITF_NUM_CDC, ITF_NUM_CDC_DATA)
ITF_NUM_TOTAL_CDC == 2
\* ITF_NUM_TOTAL of the audio variant (control, speaker, microphone)
ITF_NUM_TOTAL_AUDIO == 3

\* a descriptor of n bytes: its bLength, then n - 1 bytes of content
SubDescriptor(n) == [i \in 1..n |-> IF i = 1 THEN n ELSE 0]

RECURSIVE Concat(_)
\* the descriptors of the given lengths, one after the other
Concat(lens) ==
    IF lens = <<>> THEN <<>>
    ELSE SubDescriptor(Head(lens)) \o Concat(Tail(lens))

RECURSIVE SumSeq(_)
SumSeq(q) == IF q = <<>> THEN 0 ELSE Head(q) + SumSeq(Tail(q))

\* the descriptors TUD_CDC_DESCRIPTOR emits: interface association, control
\* interface, header, call management, ACM, union, notification endpoint,
\* data interface, endpoint out, endpoint in
CdcParts == <<8, 9, 5, 5, 4, 5, 7, 9, 7, 7>>
TUD_CDC_DESC_LEN == SumSeq(CdcParts)
TUD_CDC_DESCRIPTOR == Concat(CdcParts)

\* the descriptors TUD_AUDIO_HEADSET_STEREO_DESCRIPTOR emits: interface
\* association, audio control (standard, class-specific, clock source, input
\* terminal, feature unit, output terminal, input terminal, output terminal,
\* interrupt endpoint), then for the speaker and for the microphone interface
\* alternate 0 and two alternates of interface, class-specific interface,
\* format, endpoint and class-specific endpoint
HeadsetParts ==
    <<8, 9, 9, 8, 17, 18, 12, 17, 12, 7,
      9, 9, 16, 6, 7, 8, 9, 16, 6, 7, 8,
      9, 9, 16, 6, 7, 8, 9, 16, 6, 7, 8>>
TUD_AUDIO_HEADSET_STEREO_DESC_LEN == SumSeq(HeadsetParts)
TUD_AUDIO_HEADSET_STEREO_DESCRIPTOR == Concat(HeadsetParts)

\* CONFIG_TOTAL_LEN of the variant; the audio variant multiplies the block
\* length by CFG_TUD_AUDIO
CONFIG_TOTAL_LEN ==
    IF variant = "cdc"
    THEN TUD_CONFIG_DESC_LEN + TUD_CDC_DESC_LEN
    ELSE TUD_CONFIG_DESC_LEN + cfgAudio * TUD_AUDIO_HEADSET_STEREO_DESC_LEN

\* TUD_CONFIG_DESCRIPTOR(config_num, itfcount, stridx, total_len, attr, mA)
TUD_CONFIG_DESCRIPTOR(config_num, itfcount, stridx, total_len, attr, mA) ==
    <<TUD_CONFIG_DESC_LEN, TUSB_DESC_CONFIGURATION,
      total_len % BYTE, (total_len \div BYTE) % BYTE,
      itfcount, config_num, stridx, BitOr(128, attr), mA \div 2>>

\* desc_configuration of the variant: the header and one interface block
desc_configuration ==
    IF variant = "cdc"
    THEN TUD_CONFIG_DESCRIPTOR(1, ITF_NUM_TOTAL_CDC, 0, CONFIG_TOTAL_LEN, 128, 100)
            \o TUD_CDC_DESCRIPTOR
    ELSE TUD_CONFIG_DESCRIPTOR(1, ITF_NUM_TOTAL_AUDIO, 0, CONFIG_TOTAL_LEN, 0, 100)
            \o TUD_AUDIO_HEADSET_STEREO_DESCRIPTOR

\* tud_descriptor_configuration_cb(index): returns desc_configuration
tud_descriptor_configuration_cb ==
    /\ result' = "desc_configuration"
    /\ lastIndex' = -1
    /\ lastCount' = 0
    /\ written' = {}
    /\ UNCHANGED <<variant, cfgAudio, string_desc_arr, desc_str>>
    /\ UNCHANGED <<detVars, genVars>>

StrInitBuffer ==
    /\ desc_str = [i \in 0..(DESC_STR_LEN - 1) |-> 0]
    /\ result = "none"
    /\ lastIndex = -1
    /\ lastCount = 0
    /\ written = {}

\* the two firmware builds
StrInit ==
    /\ variant \in {"cdc", "audio"}
    /\ cfgAudio \in (IF variant = "audio" THEN 1..MaxCfgAudio ELSE {0})
    /\ string_desc_arr = TableOf(variant)
    /\ StrInitBuffer

\* the string callback over tables whose product string has any length
StrInitTrunc ==
    /\ variant \in {"cdc", "audio"}
    /\ cfgAudio = 1
    /\ \E L \in 0..MaxStrLen :
          string_desc_arr = [TableOf(variant) EXCEPT ![3] = TestStr(L)]
    /\ StrInitBuffer

StrInitIdle ==
    /\ variant = "cdc"
    /\ cfgAudio = 0
    /\ string_desc_arr = CdcTable
    /\ StrInitBuffer

----------------------------------------------------------------------------
(* Properties of the descriptor provider *)

HighByte(u) == u \div BYTE
LowByte(u) == u % BYTE

\* code units the last string call wrote after the header
UnitsWritten == Cardinality(written \ {0})

\* code units 0..c of the scratch buffer, c taken from the length in the header
Declared == [i \in 0..((LowByte(desc_str[0]) - 2) \div 2) |-> desc_str[i]]

\* "ppm_loop"
PpmLoop == <<112, 112, 109, 95, 108, 111, 111, 112>>

\* C6: a string call that returns the buffer leaves in code unit 0 the
\* string-descriptor tag in the high byte and 2 * c + 2 in the low byte, c
\* the number of code units written after the header; index 1 of the CDC
\* variant yields length 18 and the 8 characters of "ppm_loop" in order.
C6_StringHeader ==
    result = "desc_str" =>
        /\ HighByte(desc_str[0]) = TUSB_DESC_STRING
        /\ LowByte(desc_str[0]) = 2 * UnitsWritten + 2
        /\ (variant = "cdc" /\ lastIndex = 1) =>
              /\ LowByte(desc_str[0]) = 18
              /\ [i \in 1..8 |-> desc_str[i]] = PpmLoop

\* C6 witness: index 1 of the CDC variant was asked for after a serial call
\* has filled the buffer
C6_Witness ==
    /\ result = "desc_str"
    /\ variant = "cdc"
    /\ lastIndex = 1
    /\ desc_str[0] = 768 + 18
    /\ desc_str[9] # 0

\* C7: a string call with an index of 6 (the entries of the table) or more
\* returns the not-found result.
C7_OutOfRangeIsNull ==
    /\ Len(string_desc_arr) = 6
    /\ lastIndex >= 6 => result = "NULL"

\* C7 witness: a call past the table returned not-found
C7_Witness == lastIndex >= 6 /\ result = "NULL" /\ desc_str[0] # 0

\* C8: a call for a table string of length L copies exactly min(L, 32) code
\* units, and every write of a call lands in entries 0..32 of the buffer.
C8_Truncation ==
    /\ written \subseteq 0..32
    /\ (result = "desc_str" /\ lastIndex \notin {STRID_LANGID, STRID_SERIAL}) =>
          LET L == Len(string_desc_arr[lastIndex + 1])
          IN  /\ UnitsWritten = (IF L < 32 THEN L ELSE 32)
              /\ lastCount = UnitsWritten
              /\ \A i \in 1..UnitsWritten :
                    desc_str[i] = string_desc_arr[lastIndex + 1][i]

\* C8 witness: a string of more than 32 characters was copied
C8_Witness ==
    /\ result = "desc_str"
    /\ lastIndex = 2
    /\ Len(string_desc_arr[3]) > 32
    /\ UnitsWritten = 32
    /\ 32 \in written

\* C9: the total-length field of the configuration header equals the number
\* of bytes of desc_configuration.
C9_ConfigTotalLen ==
    result = "desc_configuration" =>
        desc_configuration[3] + BYTE * desc_configuration[4]
            = Len(desc_configuration)

\* what a call with a non-serial index inside the table must leave within the
\* declared length, whatever the buffer held before
ExpectedUnits(index) ==
    IF index = STRID_LANGID
    THEN [i \in 0..1 |-> IF i = 0 THEN 772 ELSE 1033]
    ELSE LET str == string_desc_arr[index + 1]
         IN  [i \in 0..Len(str) |->
                 IF i = 0 THEN 768 + 2 * Len(str) + 2 ELSE str[i]]

StringResultFromIndexOnly ==
    (result = "desc_str" /\ lastIndex # STRID_SERIAL)
        => Declared = ExpectedUnits(lastIndex)

NotFoundKeepsBuffer == (result' = "NULL") => (desc_str' = desc_str)

\* C10: after any earlier calls, a call with index 0 or a non-serial index
\* inside the table leaves a header and code units within the declared
\* length that depend on its index alone; a call that returns not-found
\* leaves the scratch buffer unchanged.
C10_HistoryIndependence ==
    []StringResultFromIndexOnly /\ [][NotFoundKeepsBuffer]_vars

\* C10 witness: the short product string of the CDC variant was returned
\* while the buffer still holds units of an earlier serial behind it
C10_Witness ==
    /\ result = "desc_str"
    /\ variant = "cdc"
    /\ lastIndex = 2
    /\ Declared = ExpectedUnits(2)
    /\ desc_str[4] # 0
    /\ desc_str[32] # 0

----------------------------------------------------------------------------
(* Specifications *)

\* the components a specification leaves alone stay in these states
DetInitIdle == DetInit /\ planD = 1 /\ planH = 1 /\ pos = 1

\* pulse_detector with its input waveform and the consumer of its samples
InitDet == DetInit /\ GenInit /\ StrInitIdle
SpecDet == InitDet /\ [][DetNext]_vars

\* pulse_generator with the producer of its commands
InitGen == DetInitIdle /\ GenInit /\ StrInitIdle
SpecGen == InitGen /\ [][GenNext]_vars

StrNext ==
    \/ StringRequest
    \/ tud_descriptor_configuration_cb

\* the descriptor callbacks of the two firmware builds
Init == DetInitIdle /\ GenInit /\ StrInit
Spec == Init /\ [][StrNext]_vars

\* the string callback over tables with strings of any length
InitTrunc == DetInitIdle /\ GenInit /\ StrInitTrunc
SpecTrunc == InitTrunc /\ [][StringRequestInTable]_vars

====
